---------------------------- MODULE Spec2Model ----------------------------
(***************************************************************************)
(* A model of agronet-api: the token service of app/auth.py and the        *)
(* generic CRUD repository of app/db/base.py together with the error       *)
(* taxonomy of app/exceptions/crud_error.py.                               *)
(*                                                                         *)
(* Time is counted in ticks, TicksPerSec ticks to the second.  The JWT     *)
(* library stores and compares `exp` in whole seconds (timegm of the       *)
(* utctimetuple), so the model keeps both units.                           *)
(***************************************************************************)
EXTENDS Integers, Sequences, FiniteSets, TLC

VARIABLES
    now,         \* the clock (datetime.utcnow()), in ticks
    token,       \* the token in the request header, as the last call left it
    issued,      \* what the last create_access_token call was given
    authResult,  \* what the last get_current_username call ended with
    rows,        \* the table: id -> row, or NoRow
    nextId,      \* the table's primary key sequence
    txn,         \* the session's transaction: "idle", or "failed" (a commit
                 \* raised and no rollback() was called since)
    principal,   \* the username of the request the repository is built for
    last         \* the last repository call: arguments, outcome, rows before

authVars == <<now, token, issued, authResult>>
repoVars == <<rows, nextId, txn, principal, last>>
vars == <<now, token, issued, authResult, rows, nextId, txn, principal, last>>

---------------------------------------------------------------------------
(* Bounds of the model *)

TicksPerSec == 2
MaxTime == 7
MaxTtl == 3
MaxExpSec == 2
MaxId == 2

---------------------------------------------------------------------------
(* app/config.py and app/auth.py : the token service *)

secret_key == "secret"
algorithm == "HS256"
DefaultExpireMinutes == 15

Keys == {secret_key, "other-secret"}
Algs == {algorithm, "HS384"}

\* A JSON value of the "sub" claim: a string, a non-string, null, or no claim.
StrSub(s) == [t |-> "str", v |-> s]
AbsentSub == [t |-> "absent", v |-> ""]
NullSub == [t |-> "null", v |-> ""]
IntSub == [t |-> "int", v |-> "123"]
Usernames == {"alice", "bob", ""}
SubValues == {StrSub(s) : s \in Usernames} \cup {AbsentSub, NullSub, IntSub}

NoTtl == -1
NoExp == -1
Ttls == {NoTtl} \cup (0 .. MaxTtl)

NoToken == [src |-> "none", wf |-> FALSE, key |-> "", alg |-> "",
            sub |-> AbsentSub, exp |-> NoExp]
NoIssue == [at |-> -1, ttl |-> NoTtl, sub |-> AbsentSub]
NoAuth == [kind |-> "none", status |-> 0, detail |-> "", username |-> "", at |-> -1]

\* raise_exception(): 401 "Could not validate credentials"
raise_exception(t) ==
    [kind |-> "invalid", status |-> 401, detail |-> "Could not validate credentials",
     username |-> "", at |-> t]

\* raise_expired_token(): 401 "Token expired"
raise_expired_token(t) ==
    [kind |-> "expired", status |-> 401, detail |-> "Token expired",
     username |-> "", at |-> t]

Principal(u, t) ==
    [kind |-> "ok", status |-> 200, detail |-> "", username |-> u, at |-> t]

\* timegm(d.utctimetuple()): a datetime as whole seconds, the fraction dropped
ToEpochSeconds(ticks) == ticks \div TicksPerSec

\* The expiry create_access_token computes: a falsy expires_delta (None or a
\* zero timedelta) takes the 15 minute default.
ExpireAt(t, ttl) ==
    IF ttl # NoTtl /\ ttl # 0
    THEN t + ttl
    ELSE t + DefaultExpireMinutes * 60 * TicksPerSec

\* jwt.encode(to_encode, secret_key, algorithm): the claims with exp as a
\* whole-second NumericDate, signed with the configured key and algorithm.
jwt_encode(sub, expire) ==
    [src |-> "issued", wf |-> TRUE, key |-> secret_key, alg |-> algorithm,
     sub |-> sub, exp |-> ToEpochSeconds(expire)]

\* jwt.decode(token, secret_key, algorithms=[algorithm]) at time t:
\* "JWTError" for a token that does not parse, is signed with another key or
\* names another algorithm; then "ExpiredSignatureError" when exp is less than
\* the current whole second; then "JWTError" (JWTClaimsError) for a subject
\* that is not a string; else the payload.
jwt_decode_expiry_inclusive(tok, t) ==
    IF ~tok.wf \/ tok.alg # algorithm \/ tok.key # secret_key THEN "JWTError"
    ELSE IF tok.exp # NoExp /\ tok.exp <= ToEpochSeconds(t) THEN "ExpiredSignatureError"
    ELSE IF tok.sub.t \notin {"str", "absent"} THEN "JWTError"
    ELSE "payload"

jwt_decode(tok, t) ==
    IF ~tok.wf \/ tok.alg # algorithm \/ tok.key # secret_key THEN "JWTError"
    ELSE IF tok.exp # NoExp /\ tok.exp < ToEpochSeconds(t) THEN "ExpiredSignatureError"
    ELSE IF tok.sub.t \notin {"str", "absent"} THEN "JWTError"
    ELSE "payload"

\* get_current_username without the check of the subject
get_current_username_no_sub_check(tok, t) ==
    LET d == jwt_decode(tok, t) IN
    IF d = "ExpiredSignatureError" THEN raise_expired_token(t)
    ELSE IF d = "JWTError" THEN raise_exception(t)
    ELSE Principal(tok.sub.v, t)

\* get_current_username(token): `username is None or {}` is `username is None`,
\* the empty dict being falsy.
get_current_username(tok, t) ==
    LET d == jwt_decode(tok, t) IN
    IF d = "ExpiredSignatureError" THEN raise_expired_token(t)
    ELSE IF d = "JWTError" THEN raise_exception(t)
    ELSE IF tok.sub.t = "absent" \/ FALSE THEN raise_exception(t)
    ELSE Principal(tok.sub.v, t)

\* The clock advances.
Tick ==
    /\ now < MaxTime
    /\ now' = now + 1
    /\ UNCHANGED <<token, issued, authResult>>
    /\ UNCHANGED repoVars

\* create_access_token(data, expires_delta)
create_access_token(sub, ttl) ==
    /\ token' = jwt_encode(sub, ExpireAt(now, ttl))
    /\ issued' = [at |-> now, ttl |-> ttl, sub |-> sub]
    /\ authResult' = NoAuth
    /\ UNCHANGED now
    /\ UNCHANGED repoVars

\* A request arrives with any token header at all.
PresentToken(wf, key, alg, sub, exp) ==
    /\ token' = [src |-> "presented", wf |-> wf, key |-> key, alg |-> alg,
                 sub |-> sub, exp |-> exp]
    /\ issued' = NoIssue
    /\ authResult' = NoAuth
    /\ UNCHANGED now
    /\ UNCHANGED repoVars

\* get_current_username(token) on the header's token, now
Validate ==
    /\ token.src # "none"
    /\ authResult' = get_current_username(token, now)
    /\ UNCHANGED <<now, token, issued>>
    /\ UNCHANGED repoVars

AuthInit ==
    /\ now = 0
    /\ token = NoToken
    /\ issued = NoIssue
    /\ authResult = NoAuth

---------------------------------------------------------------------------
(* app/exceptions/crud_error.py : the error taxonomy *)

Unset == "<unset>"

\* `username: str` in the body of CRUDBaseError is an annotation without a
\* value: it creates no class attribute, and no code assigns one.
CRUDBaseError_username == Unset

NoErr == [type |-> "", status |-> 0, detail |-> "", username |-> "", obj_id |-> 0]

\* CRUDBaseError.__init__(status): builds the HTTPException with the header
\* X-Username-Error read from self.username.  `inst` is the instance's own
\* username attribute (Unset when the instance has none): the lookup falls
\* back to the class, and an attribute found nowhere is an AttributeError.
CRUDBaseError_init(type, status, detail, obj_id, inst) ==
    LET username == IF inst # Unset THEN inst ELSE CRUDBaseError_username IN
    IF detail = "AttributeError" \/ username = Unset
    THEN [type |-> "AttributeError", status |-> 0, detail |-> "", username |-> "",
          obj_id |-> 0]
    ELSE [type |-> type, status |-> status, detail |-> detail,
          username |-> username, obj_id |-> obj_id]

HTTP_404_NOT_FOUND == 404
HTTP_409_CONFLICT == 409

\* CRUDUpdateError(obj_id=..., err=...)
CRUDUpdateError(obj_id) ==
    CRUDBaseError_init("CRUDUpdateError", HTTP_404_NOT_FOUND, "Not updated", obj_id, Unset)

\* CRUDDeleteError(obj_id=..., err=...)
CRUDDeleteError(obj_id) ==
    CRUDBaseError_init("CRUDDeleteError", HTTP_404_NOT_FOUND, "Not deleted", obj_id, Unset)

\* CRUDCreateError(err=...)
CRUDCreateError ==
    CRUDBaseError_init("CRUDCreateError", HTTP_409_CONFLICT, "Conflict", 0, Unset)

\* CRUDSelectError(obj_id=...): super().__init__() runs before self.obj_id is
\* assigned, so erro_message() reads an attribute that does not exist yet.
CRUDSelectError(obj_id) ==
    CRUDBaseError_init("CRUDSelectError", HTTP_404_NOT_FOUND, "AttributeError", obj_id, Unset)

TaxonomyErrors ==
    {"CRUDUpdateError", "CRUDDeleteError", "CRUDSelectError", "CRUDCreateError"}

---------------------------------------------------------------------------
(* app/db/base.py : the generic repository over one table *)

Ids == 1 .. MaxId
CallIds == 1 .. (MaxId + 1)
Names == {"x", "y"}
Roles == {"a", "b"}
Fields == {"name", "role"}

\* Python's None as a result, and a row that is not stored
None == [id |-> 0, name |-> "", role |-> ""]

CreateSchemas == [name : Names, role : Roles]
OptionalSchemas == [name : Names \cup {Unset}, role : Roles \cup {Unset}]
NoSchema == [name |-> Unset, role |-> Unset]

\* self.model(**obj_new.model_dump()): a new instance with every field of obj
model_new_drop_role(id, obj) == [id |-> id, name |-> obj.name, role |-> "a"]

model_new(id, obj) == [id |-> id, name |-> obj.name, role |-> obj.role]

\* self.db.get(self.model, id) on the table rs
db_get(rs, id) == IF id \in DOMAIN rs THEN rs[id] ELSE None

\* self.db.add(obj) then a flush: the table with the new row
db_add(rs, obj) == [rs EXCEPT ![obj.id] = obj]

\* self.db.delete(res) then a flush: the table without the row
db_delete_all(rs, id) == [i \in DOMAIN rs |-> None]

db_delete(rs, id) == [rs EXCEPT ![id] = None]

\* self.db.rollback(): the table as it was committed, whatever was pending
db_rollback_keeps_pending(committed, pending) == pending

db_rollback(committed, pending) == committed

\* query_schema.model_dump(exclude_unset=True): the fields that were set
model_dump_exclude_unset(q) == {f \in Fields : q[f] # Unset}

\* filter_by(**filters)
filter_by(r, q) == \A f \in model_dump_exclude_unset(q) : r[f] = q[f]

\* the rows with ids in S, ascending by id
RECURSIVE order_by_id(_, _)
order_by_id(rs, S) ==
    IF S = {} THEN <<>>
    ELSE LET m == CHOOSE i \in S : \A j \in S : i <= j
         IN <<rs[m]>> \o order_by_id(rs, S \ {m})

\* select(self.model).filter_by(**filters).order_by(self.model.id), executed
db_execute_select(rs, q) ==
    order_by_id(rs, {i \in DOMAIN rs : rs[i] # None /\ filter_by(rs[i], q)})

\* update_schema.model_dump_json.items(): model_dump_json is a bound method,
\* read here without a call, and a method has no attribute `items`.
model_dump_json_items(patch) == "AttributeError"

\* for field, value in ...: setattr(db_obj, field, value)
setattr_all(r, patch) ==
    [id |-> r.id,
     name |-> IF patch.name # Unset THEN patch.name ELSE r.name,
     role |-> IF patch.role # Unset THEN patch.role ELSE r.role]

NoCall ==
    [op |-> "none", id |-> 0, obj |-> NoSchema, username |-> "",
     outcome |-> "none", exc |-> "", result |-> None, list |-> <<>>,
     err |-> NoErr, before |-> [i \in Ids |-> None], fail |-> "none"]

Call(op, id, obj) ==
    [NoCall EXCEPT !.op = op, !.id = id, !.obj = obj, !.before = rows]

Returned(c, result) == [c EXCEPT !.outcome = "returned", !.result = result]
ReturnedList(c, l) == [c EXCEPT !.outcome = "returned", !.list = l]
Raised(c, exc) == [c EXCEPT !.outcome = "raised", !.exc = exc]
RaisedError(c, err) == [c EXCEPT !.outcome = "raised", !.exc = err.type, !.err = err]

RepoInit ==
    /\ rows = [i \in Ids |-> None]
    /\ nextId = 1
    /\ txn = "idle"
    /\ principal = Unset
    /\ last = NoCall


\* The session (self.db): rows is the committed table.  A commit that raises
\* leaves the session's transaction failed: the database has undone the
\* statements, and until Session.rollback() is called every get, execute or
\* commit on that session raises PendingRollbackError.  txn records that.
\*
\* The methods below are modelled on a repository object whose db attribute
\* is bound (as a subclass's own constructor would leave it);
\* SQLAlchemyRepository.__init__ itself is the action SQLAlchemyRepository_init.

CreateFailures == {"none", "construct", "commit", "refresh"}

\* SQLAlchemyRepository.__init__(db, username): self.db = db, then
\* error = CRUDBaseError() and error.username = username on that one object.
SQLAlchemyRepository_init(username) ==
    LET c == [Call("__init__", 0, NoSchema) EXCEPT !.username = username]
        error == CRUDBaseError_init("CRUDBaseError", HTTP_404_NOT_FOUND, "None", 0, Unset)
    IN /\ last' = IF error.type = "AttributeError"
                  THEN RaisedError(c, error)
                  ELSE Returned(c, None)
       /\ principal' = username
       /\ UNCHANGED <<rows, nextId, txn>>
       /\ UNCHANGED authVars

\* create(obj_new).  fail names the statement of the try block that raises:
\* the construction of the instance, the commit, the refresh, or none.  A
\* commit on a session whose transaction is awaiting a rollback raises too.
\* A failed commit has drawn its key from the sequence all the same.
create(obj_new, fail) ==
    /\ nextId <= MaxId
    /\ LET raises == IF fail # "construct" /\ txn = "failed" THEN "commit" ELSE fail
           c == [Call("create", 0, obj_new) EXCEPT !.fail = raises]
           db_obj_new == model_new(nextId, obj_new)
           pending == IF raises = "construct" THEN rows ELSE db_add(rows, db_obj_new)
       IN IF raises \in {"construct", "commit"}
          THEN /\ rows' = db_rollback(rows, pending)
               /\ nextId' = IF raises = "commit" /\ txn # "failed" THEN nextId + 1 ELSE nextId
               /\ txn' = "idle"
               /\ last' = Returned(c, None)
          ELSE /\ rows' = pending
               /\ nextId' = nextId + 1
               /\ txn' = "idle"
               /\ last' = Returned(c, IF raises = "refresh" THEN None ELSE db_get(pending, nextId))
    /\ UNCHANGED <<principal, authVars>>

\* read_by_id(id), as a call and its outcome in the current state
read_by_id_call(id) ==
    IF txn = "failed"
    THEN Raised(Call("read_by_id", id, NoSchema), "PendingRollbackError")
    ELSE Returned(Call("read_by_id", id, NoSchema), db_get(rows, id))

read_by_id(id) ==
    /\ last' = read_by_id_call(id)
    /\ UNCHANGED <<rows, nextId, txn, principal>>
    /\ UNCHANGED authVars

\* self.model(res.scalars().all()): the model's constructor takes keyword
\* arguments only, a positional list is a TypeError.
model_from_list(l) == "TypeError"

\* read_optional(query_schema).  The first res.scalars().all() consumes the
\* result, the second returns nothing.
read_optional(query_schema) ==
    /\ LET c == Call("read_optional", 0, query_schema)
           first == db_execute_select(rows, query_schema)
           error == CRUDSelectError(0)
           second == <<>>
       IN last' = IF txn = "failed" THEN Raised(c, "PendingRollbackError")
                  ELSE IF first = <<>> /\ error.type = "AttributeError"
                  THEN RaisedError(c, error)
                  ELSE IF model_from_list(second) = "TypeError" THEN Raised(c, "TypeError")
                  ELSE ReturnedList(c, second)
    /\ UNCHANGED <<rows, nextId, txn, principal>>
    /\ UNCHANGED authVars

\* delete(id).  fail: the commit raises (no try block surrounds it).
delete(id, fail) ==
    /\ LET res == db_get(rows, id)
           c == [Call("delete", id, NoSchema) EXCEPT
                    !.fail = IF txn # "failed" /\ res # None /\ fail THEN "commit" ELSE "none"]
       IN IF txn = "failed"
          THEN /\ last' = Raised(c, "PendingRollbackError")
               /\ UNCHANGED <<rows, txn>>
          ELSE IF res # None
          THEN IF fail
               THEN /\ last' = Raised(c, "DBAPIError")
                    /\ txn' = "failed"
                    /\ UNCHANGED rows
               ELSE /\ last' = Returned(c, res)
                    /\ rows' = db_delete(rows, id)
                    /\ UNCHANGED txn
          ELSE /\ last' = Returned(c, res)
               /\ UNCHANGED <<rows, txn>>
    /\ UNCHANGED <<nextId, principal>>
    /\ UNCHANGED authVars

\* update(id, update_schema).  fail: the commit raises.
update(id, update_schema, fail) ==
    /\ LET db_obj == db_get(rows, id)
           items == model_dump_json_items(update_schema)
           raises == items = "AttributeError" \/ fail
           c == [Call("update", id, update_schema) EXCEPT
                    !.fail = IF items = "AttributeError" THEN "items"
                             ELSE IF fail THEN "commit" ELSE "none"]
           pending == IF items = "AttributeError" THEN rows
                      ELSE [rows EXCEPT ![id] = setattr_all(db_obj, update_schema)]
       IN IF txn = "failed"
          THEN /\ last' = Raised(c, "PendingRollbackError")
               /\ UNCHANGED <<rows, txn>>
          ELSE IF db_obj = None
          THEN /\ last' = RaisedError(c, CRUDUpdateError(id))
               /\ UNCHANGED <<rows, txn>>
          ELSE IF raises
          THEN /\ rows' = db_rollback(rows, pending)
               /\ txn' = "idle"
               /\ last' = RaisedError(c, CRUDUpdateError(id))
          ELSE /\ rows' = pending
               /\ txn' = "idle"
               /\ last' = Returned(c, db_get(pending, id))
    /\ UNCHANGED <<nextId, principal>>
    /\ UNCHANGED authVars

---------------------------------------------------------------------------
(* The specifications *)

Init == AuthInit /\ RepoInit

\* The repository, called by a request handler.
Next ==
    \/ \E u \in Usernames \ {""} : SQLAlchemyRepository_init(u)
    \/ \E obj \in CreateSchemas, f \in CreateFailures : create(obj, f)
    \/ \E id \in CallIds : read_by_id(id)
    \/ \E q \in OptionalSchemas : read_optional(q)
    \/ \E id \in CallIds, f \in BOOLEAN : delete(id, f)
    \/ \E id \in CallIds, p \in OptionalSchemas, f \in BOOLEAN : update(id, p, f)

Spec == Init /\ [][Next]_vars

\* The token service, as time passes.
AuthNext ==
    \/ Tick
    \/ \E s \in SubValues, ttl \in Ttls : create_access_token(s, ttl)
    \/ \E wf \in BOOLEAN, k \in Keys, a \in Algs, s \in SubValues,
          e \in {NoExp} \cup (0 .. MaxExpSec) : PresentToken(wf, k, a, s, e)
    \/ Validate

AuthSpec == Init /\ [][AuthNext]_vars

---------------------------------------------------------------------------
(* The token service's properties (checked under AuthSpec) *)

\* The last validation was of a token create_access_token issued for a
\* string subject with a positive time-to-live.
ValidatedIssued ==
    /\ authResult.kind # "none"
    /\ token.src = "issued"
    /\ issued.ttl > 0
    /\ issued.sub.t = "str"

\* C1 as stated: a token issued for subject sub with a positive ttl validates
\* to sub at every instant before issue-time + ttl, and fails with 401
\* "Token expired" at every instant after issue-time + ttl.
C1_AsStated ==
    ValidatedIssued =>
        /\ authResult.at < issued.at + issued.ttl
              => authResult = Principal(issued.sub.v, authResult.at)
        /\ authResult.at > issued.at + issued.ttl
              => authResult = raise_expired_token(authResult.at)

\* C1 amended: expiry is decided in whole seconds.  The token validates to
\* sub at every instant whose whole second is not after the whole second of
\* issue-time + ttl (so at every instant before issue-time + ttl), and fails
\* with 401 "Token expired" at every instant of a later whole second.
C1_ExpiryInWholeSeconds ==
    ValidatedIssued =>
        /\ authResult.at < issued.at + issued.ttl
              => authResult = Principal(issued.sub.v, authResult.at)
        /\ ToEpochSeconds(authResult.at) <= ToEpochSeconds(issued.at + issued.ttl)
              => authResult = Principal(issued.sub.v, authResult.at)
        /\ ToEpochSeconds(authResult.at) > ToEpochSeconds(issued.at + issued.ttl)
              => authResult = raise_expired_token(authResult.at)

\* An issued token was validated in a whole second after that of its expiry.
C1_Witness ==
    /\ ValidatedIssued
    /\ authResult.at > issued.at + issued.ttl
    /\ authResult.kind = "expired"

MisSigned == ~token.wf \/ token.key # secret_key \/ token.alg # algorithm

\* C2 as stated: a token that is malformed, signed with another secret or
\* algorithm, or whose payload has no subject, fails with 401 "Could not
\* validate credentials", never with the expired-credential failure.
C2_AsStated ==
    (authResult.kind # "none" /\ (MisSigned \/ token.sub.t = "absent"))
        => authResult = raise_exception(authResult.at)

\* C2 amended: no principal is returned in any of these cases.  A malformed
\* or mis-signed token fails with 401 "Could not validate credentials"; a
\* well-signed token without a subject fails with it too unless its expiry has
\* passed, and then fails with 401 "Token expired".
C2_NoPrincipalWithoutSubject ==
    authResult.kind # "none" =>
        /\ MisSigned => authResult = raise_exception(authResult.at)
        /\ (~MisSigned /\ token.sub.t = "absent") =>
              authResult =
                  IF token.exp # NoExp /\ token.exp < ToEpochSeconds(authResult.at)
                  THEN raise_expired_token(authResult.at)
                  ELSE raise_exception(authResult.at)

\* A well-signed, unexpired token without a subject was refused.
C2_Witness ==
    /\ authResult.kind = "invalid"
    /\ ~MisSigned
    /\ token.sub.t = "absent"

---------------------------------------------------------------------------
(* The repository's properties (checked under Spec) *)

Stored(rs) == {rs[i] : i \in {j \in DOMAIN rs : rs[j] # None}}

\* The last call was made on a session with no failed transaction.
OnUsableSession == last.exc # "PendingRollbackError"

\* C3: when create(obj) succeeds it returns an instance with a generated
\* primary key, and a following read_by_id with that key returns an instance
\* equal to obj in every input field.
C3_CreateThenRead ==
    (last.op = "create" /\ last.outcome = "returned" /\ last.result # None) =>
        /\ last.result.id \in Ids
        /\ db_get(last.before, last.result.id) = None
        /\ LET r == read_by_id_call(last.result.id)
           IN /\ r.outcome = "returned"
              /\ r.result.id = last.result.id
              /\ \A f \in Fields : r.result[f] = last.obj[f]

\* A create has returned the instance it stored.
C3_Witness ==
    /\ last.op = "create"
    /\ last.outcome = "returned"
    /\ last.result # None
    /\ last.obj.role = "b"

\* C4 as stated: update(id, patch) on an existing id, when the commit does not
\* fail, returns the instance with every field of patch set to the patch's
\* value and leaves every other field and every other row as it was.
C4_AsStated ==
    (last.op = "update" /\ OnUsableSession /\ db_get(last.before, last.id) # None
       /\ last.fail # "commit") =>
        LET old == db_get(last.before, last.id)
            new == [id |-> old.id,
                    name |-> IF last.obj.name # Unset THEN last.obj.name ELSE old.name,
                    role |-> IF last.obj.role # Unset THEN last.obj.role ELSE old.role]
        IN /\ last.outcome = "returned"
           /\ last.result = new
           /\ rows = [last.before EXCEPT ![last.id] = new]

\* C5: after delete(id) returns, a following read_by_id(id) returns absent,
\* and every row with another id is still readable with unchanged fields.
C5_DeleteThenRead ==
    (last.op = "delete" /\ last.outcome = "returned") =>
        /\ read_by_id_call(last.id).outcome = "returned"
        /\ read_by_id_call(last.id).result = None
        /\ \A j \in Ids \ {last.id} :
              /\ read_by_id_call(j).outcome = "returned"
              /\ read_by_id_call(j).result = last.before[j]

\* A delete has returned the row it removed, another row being stored.
C5_Witness ==
    /\ last.op = "delete"
    /\ last.outcome = "returned"
    /\ last.result # None
    /\ \E j \in Ids \ {last.id} : rows[j] # None

\* C6 as stated: read_optional(query) returns exactly the stored rows that
\* match every field set in query, in ascending order of primary key.
C6_AsStated ==
    (last.op = "read_optional" /\ OnUsableSession) =>
        /\ last.outcome = "returned"
        /\ \A i \in 1 .. Len(last.list) :
              /\ last.list[i] \in Stored(rows)
              /\ \A f \in Fields : last.obj[f] # Unset => last.list[i][f] = last.obj[f]
        /\ \A r \in Stored(rows) :
              (\A f \in Fields : last.obj[f] # Unset => r[f] = last.obj[f])
                  => \E i \in 1 .. Len(last.list) : last.list[i] = r
        /\ \A i, j \in 1 .. Len(last.list) : i < j => last.list[i].id < last.list[j].id

\* C7 as stated: update(id, patch) on an id with no stored row fails with a
\* CRUDUpdateError whose obj_id is that id, and leaves the rows as they were.
C7_AsStated ==
    (last.op = "update" /\ OnUsableSession /\ db_get(last.before, last.id) = None) =>
        /\ last.outcome = "raised"
        /\ last.exc = "CRUDUpdateError"
        /\ last.err.obj_id = last.id
        /\ rows = last.before

\* C8 as stated: every create, update and delete ends with the session's
\* transaction committed or rolled back, on the failing paths too.
C8_AsStated ==
    last.op \in {"create", "update", "delete"} => txn = "idle"

\* C9 as stated: a repository can be constructed for a principal u, and every
\* taxonomy error its operations produce carries u as X-Username-Error and the
\* default status of its kind.
C9_AsStated ==
    /\ last.op = "__init__" => last.outcome = "returned"
    /\ last.exc \in TaxonomyErrors =>
          /\ last.err.username = principal
          /\ last.err.status =
                IF last.exc = "CRUDCreateError" THEN HTTP_409_CONFLICT
                ELSE HTTP_404_NOT_FOUND

\* C10: when the construction of the instance or the commit fails in
\* create(obj), create rolls the session back, returns None without raising,
\* and the stored rows are those of before the call.
C10_CreateFailureSwallowed ==
    (last.op = "create" /\ last.fail \in {"construct", "commit"}) =>
        /\ txn = "idle"
        /\ last.outcome = "returned"
        /\ last.result = None
        /\ rows = last.before

\* A create's commit has failed with a row already stored.
C10_Witness ==
    /\ last.op = "create"
    /\ last.fail = "commit"
    /\ Stored(last.before) # {}

=============================================================================
